---------------------------- MODULE Spec2Model ----------------------------
(***************************************************************************)
(* The PM4 command processor of video_core/amdgpu/liverpool.cpp:           *)
(* the submission queue gfx_ring with its lock and two condition           *)
(* variables, the processing thread Liverpool::Process, the drain barrier  *)
(* Liverpool::WaitGpuIdle, the destructor, and the packet decoder          *)
(* Liverpool::ProcessCmdList acting on the register file.                  *)
(*                                                                         *)
(* A 32-bit word is the pair <<hi, lo>> of its 16-bit halves, so that the  *)
(* bit fields of the packet structures are computed by division and        *)
(* remainder, as the hardware layout defines them.                         *)
(***************************************************************************)
EXTENDS Integers, Sequences, FiniteSets, TLC

(***************************************************************************)
(* Bounds of the model.                                                    *)
(***************************************************************************)
\* Submit calls made in one behaviour.
MaxSubmits == 2

(***************************************************************************)
(* Words.                                                                  *)
(***************************************************************************)
Half == 256 * 256

W(hi, lo) == <<hi, lo>>

Hi(w) == w[1]

Lo(w) == w[2]

Zero == W(0, 0)

\* Unsigned comparison of two 32-bit words.
WordLess(a, b) == Hi(a) < Hi(b) \/ (Hi(a) = Hi(b) /\ Lo(a) < Lo(b))

RECURSIVE BitAnd(_, _)
\* Bitwise and of two naturals.
BitAnd(a, b) ==
    IF a = 0 \/ b = 0 THEN 0
    ELSE (a % 2) * (b % 2) + 2 * BitAnd(a \div 2, b \div 2)

WordAnd(a, b) == W(BitAnd(Hi(a), Hi(b)), BitAnd(Lo(a), Lo(b)))

(***************************************************************************)
(* The register file: Liverpool::regs.  reg_array is kept as the function  *)
(* from the word indices written so far to their values; every other word  *)
(* of the array still holds its value at construction, InitWord.           *)
(***************************************************************************)
NumRegs == 53248

ShRegWordOffset == 11264

ContextRegWordOffset == 40960

UconfigRegWordOffset == 49152

InitWord == Zero

RegRead(arr, i) == IF i \in DOMAIN arr THEN arr[i] ELSE InitWord

\* The named ranges of reg_array: each runs from its base to the next base.
RangeOf(i) ==
    IF i < ShRegWordOffset THEN "low"
    ELSE IF i < ContextRegWordOffset THEN "sh"
    ELSE IF i < UconfigRegWordOffset THEN "context"
    ELSE IF i < NumRegs THEN "uconfig"
    ELSE "outside"

RangeBase(r) ==
    CASE r = "sh" -> ShRegWordOffset
      [] r = "context" -> ContextRegWordOffset
      [] r = "uconfig" -> UconfigRegWordOffset

RangeCapacity(r) ==
    CASE r = "sh" -> ContextRegWordOffset - ShRegWordOffset
      [] r = "context" -> UconfigRegWordOffset - ContextRegWordOffset
      [] r = "uconfig" -> NumRegs - UconfigRegWordOffset

(***************************************************************************)
(* Packet layout (video_core/amdgpu/pm4_cmds.h): word 0 is the header,     *)
(* bits 31..30 the type, bits 29..16 the count field and bits 15..8 the    *)
(* opcode of a type-3 packet.                                              *)
(***************************************************************************)
\* PM4Header::type
HeaderType(w) == Hi(w) \div 16384

\* PM4Type3Header::count
HeaderCount(w) == Hi(w) % 16384

\* PM4Type3Header::opcode
HeaderOpcode(w) == Lo(w) \div 256

\* PM4Type3Header::NumWords(): the payload words that follow the header.
NumWords(w) == HeaderCount(w) + 1

\* PM4ItOpcode
OpNop == 16

OpDispatchDirect == 21

OpDrawIndex2 == 39

OpIndexType == 42

OpDrawIndexAuto == 45

OpWriteData == 55

OpWaitRegMem == 60

OpEventWriteEop == 71

OpEventWriteEos == 72

OpDmaData == 80

OpAcquireMem == 88

OpSetContextReg == 105

OpSetShReg == 118

OpSetUconfigReg == 121

\* PM4CmdNop::PayloadType::PatchedFlip
PatchedFlip == W(26741, 1910)

\* PM4CmdSetData::reg_offset, bits 15..0 of word 1.
RegOffset(w) == Lo(w)

\* PM4CmdWriteData::dst_sel, bits 11..8 of word 1.
DstSel(w) == (Lo(w) \div 256) % 16

\* PM4CmdWriteData::wr_one_addr, bit 16 of word 1.
WrOneAddr(w) == Hi(w) % 2

\* PM4CmdWaitRegMem::function, bits 2..0 of word 1.
WaitFunction(w) == Lo(w) % 8

\* PM4CmdWaitRegMem::engine, bit 8 of word 1; Engine::Me is 0.
WaitEngine(w) == (Lo(w) \div 256) % 2

EngineMe == 0

(***************************************************************************)
(* Memory the packets address.  An address is <<high word, low word>>;     *)
(* memory is the function from the addresses written so far to their       *)
(* words, every other word holding InitWord.                               *)
(***************************************************************************)
\* The address i words after a.
AddrPlus(a, i) ==
    LET lo == Lo(a[2]) + 4 * i
        hi == Hi(a[2]) + lo \div Half
    IN  <<IF hi \div Half = 0 THEN a[1]
          ELSE LET l2 == Lo(a[1]) + hi \div Half
               IN  W((Hi(a[1]) + l2 \div Half) % Half, l2 % Half),
          W(hi % Half, lo % Half)>>

MemRead(mem, a) == IF a \in DOMAIN mem THEN mem[a] ELSE InitWord

(***************************************************************************)
(* Liverpool::ProcessCmdList, one packet: the effect of the packet whose   *)
(* header is word h of the command buffer buf.  A word the packet reads    *)
(* outside the buffer (the packet's span passes the buffer's end) is the   *)
(* arbitrary word stray.                                                   *)
(***************************************************************************)
\* cmdbuf[i], as the decoder reads it.
BufWord(buf, i, stray) == IF i < Len(buf) THEN buf[i + 1] ELSE stray

\* size_in_bytes of a buffer: dcb.size_bytes().
SizeBytes(buf) == 4 * Len(buf)

\* The opcodes the inner switch has a case for.
KnownOpcodes ==
    {OpNop, OpSetContextReg, OpSetShReg, OpSetUconfigReg, OpIndexType,
     OpDrawIndex2, OpDrawIndexAuto, OpDispatchDirect, OpEventWriteEos,
     OpEventWriteEop, OpDmaData, OpWriteData, OpAcquireMem, OpWaitRegMem}

IsSetReg(op) == op \in {OpSetContextReg, OpSetShReg, OpSetUconfigReg}

\* The base the set-register cases add to reg_offset.
SetRegBase(op) ==
    CASE op = OpSetContextReg -> ContextRegWordOffset
      [] op = OpSetShReg -> ShRegWordOffset
      [] op = OpSetUconfigReg -> UconfigRegWordOffset

\* The range a set-register opcode addresses.
SetRegRange(op) ==
    CASE op = OpSetContextReg -> "context"
      [] op = OpSetShReg -> "sh"
      [] op = OpSetUconfigReg -> "uconfig"

\* A copy of count words, the offset word counted as data.
SetRegLenWholePayload(hdr) == NumWords(hdr)

\* The number of words the memcpy of a set-register case copies:
\* (count - 1) * sizeof(u32) bytes, count being NumWords().
SetRegLen(hdr) == NumWords(hdr) - 1

\* The first index of reg_array the memcpy writes.
SetRegFirst(buf, h, stray) ==
    SetRegBase(HeaderOpcode(BufWord(buf, h, stray)))
        + RegOffset(BufWord(buf, h + 1, stray))

\* The indices the memcpy of a set-register case writes, in or outside the
\* array.
SetRegIndices(buf, h, stray) ==
    LET first == SetRegFirst(buf, h, stray)
    IN  {first + i : i \in 0 .. SetRegLen(BufWord(buf, h, stray)) - 1}

\* reg_array after the memcpy (the part of it that lands in the array).
SetRegWrite(arr, buf, h, stray) ==
    LET first == SetRegFirst(buf, h, stray)
        dst == {i \in SetRegIndices(buf, h, stray) : i < NumRegs}
    IN  [i \in DOMAIN arr \cup dst |->
            IF i \in dst THEN BufWord(buf, h + 2 + (i - first), stray)
            ELSE arr[i]]

\* PM4CmdWriteData::Address(): dst_addr_lo is word 2, dst_addr_hi word 3.
WriteDataAddress(buf, h, stray) ==
    <<BufWord(buf, h + 3, stray), BufWord(buf, h + 2, stray)>>

\* data_size / 4: (count - 2) words, in unsigned 32-bit arithmetic a count
\* field below 2 wraps to a size no buffer has.
WriteDataWraps(hdr) == HeaderCount(hdr) < 2

WriteDataLen(hdr) == HeaderCount(hdr) - 2

\* memory after the memcpy of a write-data packet.
WriteDataCopy(mem, buf, h, stray) ==
    LET a == WriteDataAddress(buf, h, stray)
        n == WriteDataLen(BufWord(buf, h, stray))
        dst == {AddrPlus(a, i) : i \in 0 .. n - 1}
    IN  [x \in DOMAIN mem \cup dst |->
            IF x \in dst
            THEN LET i == CHOOSE j \in 0 .. n - 1 : AddrPlus(a, j) = x
                 IN  BufWord(buf, h + 4 + i, stray)
            ELSE mem[x]]

\* PM4CmdWaitRegMem::Address(): poll_addr_lo is word 2, poll_addr_hi word 3.
WaitRegMemAddress(buf, h, stray) ==
    <<BufWord(buf, h + 3, stray), BufWord(buf, h + 2, stray)>>

\* PM4CmdWaitRegMem::Test(); "fatal" for a function the switch has no case
\* for.  ref is word 4 and mask word 5.
WaitRegMemTest(mem, buf, h, stray) ==
    LET f == WaitFunction(BufWord(buf, h + 1, stray))
        ref == BufWord(buf, h + 4, stray)
        mask == BufWord(buf, h + 5, stray)
        v == WordAnd(MemRead(mem, WaitRegMemAddress(buf, h, stray)), mask)
    IN  CASE f = 0 -> "true"
          [] f = 1 -> IF WordLess(v, ref) THEN "true" ELSE "false"
          [] f = 2 -> IF WordLess(v, ref) \/ v = ref THEN "true" ELSE "false"
          [] f = 3 -> IF v = ref THEN "true" ELSE "false"
          [] f = 4 -> IF v # ref THEN "true" ELSE "false"
          [] f = 5 -> IF ~WordLess(v, ref) THEN "true" ELSE "false"
          [] f = 6 -> IF WordLess(ref, v) THEN "true" ELSE "false"
          [] OTHER -> "fatal"

\* An unknown opcode that is skipped.
UnknownOpcodeSkipped == "next"

\* default: UNREACHABLE_MSG("Unknown PM4 type 3 opcode ...")
UnknownOpcodeOutcome == "fatal"

\* default: UNREACHABLE_MSG("Invalid PM4 type {}", type)
InvalidTypeOutcome == "fatal"

\* How the decode of one packet ends:
\*   "fatal"  an ASSERT or UNREACHABLE fired,
\*   "oob"    a memcpy left the register array or wrapped its size,
\*   "poll"   the wait-reg-mem loop is entered,
\*   "next"   the switch is left and the cursor advances.
PacketOutcome(buf, h, stray) ==
    LET hdr == BufWord(buf, h, stray)
        op == HeaderOpcode(hdr)
        w1 == BufWord(buf, h + 1, stray)
    IN  IF HeaderType(hdr) # 3 THEN InvalidTypeOutcome
        ELSE IF op \notin KnownOpcodes THEN UnknownOpcodeOutcome
        ELSE IF IsSetReg(op)
        THEN IF \E i \in SetRegIndices(buf, h, stray) : i >= NumRegs
             THEN "oob" ELSE "next"
        ELSE IF op = OpWriteData
        THEN IF DstSel(w1) \notin {2, 5} THEN "fatal"
             ELSE IF WrOneAddr(w1) # 0 THEN "fatal"
             ELSE IF WriteDataWraps(hdr) THEN "oob"
             ELSE "next"
        ELSE IF op = OpWaitRegMem
        THEN IF WaitEngine(w1) # EngineMe THEN "fatal" ELSE "poll"
        ELSE "next"

\* regs after the switch of one packet.
RegsAfterPacket(r, buf, h, stray) ==
    LET hdr == BufWord(buf, h, stray)
        op == HeaderOpcode(hdr)
    IN  CASE IsSetReg(op) ->
               [r EXCEPT !.reg_array = SetRegWrite(@, buf, h, stray)]
          [] op = OpIndexType ->
               [r EXCEPT !.index_buffer_type = BufWord(buf, h + 1, stray)]
          [] op = OpDrawIndex2 ->
               [r EXCEPT !.max_index_size = BufWord(buf, h + 1, stray),
                         !.index_base_lo = BufWord(buf, h + 2, stray),
                         !.index_base_hi = BufWord(buf, h + 3, stray),
                         !.num_indices = BufWord(buf, h + 4, stray),
                         !.draw_initiator = BufWord(buf, h + 5, stray)]
          [] op = OpDrawIndexAuto ->
               [r EXCEPT !.num_indices = BufWord(buf, h + 1, stray),
                         !.draw_initiator = BufWord(buf, h + 2, stray)]
          [] OTHER -> r

\* memory after the switch of one packet.
MemoryAfterPacket(mem, buf, h, stray) ==
    LET hdr == BufWord(buf, h, stray)
    IN  IF HeaderOpcode(hdr) = OpWriteData /\ ~WriteDataWraps(hdr)
        THEN WriteDataCopy(mem, buf, h, stray)
        ELSE mem

\* Whether the no-op case signals InterruptId::GfxFlip.
NopSignalsFlip(buf, h, stray) ==
    LET hdr == BufWord(buf, h, stray)
    IN  /\ HeaderOpcode(hdr) = OpNop
        /\ HeaderCount(hdr) # 0
        /\ BufWord(buf, h + 1, stray) = PatchedFlip

\* Whether the packet calls SignalFence().
SignalsFence(buf, h, stray) ==
    HeaderOpcode(BufWord(buf, h, stray)) \in {OpEventWriteEos, OpEventWriteEop}

\* A call without the test of the rasterizer pointer.
CallsDrawIndexUnguarded(buf, h, stray, bound) ==
    HeaderOpcode(BufWord(buf, h, stray)) = OpDrawIndex2

\* A draw-index-auto case with its call of the rasterizer left in.
CallsDrawIndexAlsoAuto(buf, h, stray, bound) ==
    HeaderOpcode(BufWord(buf, h, stray)) \in {OpDrawIndex2, OpDrawIndexAuto}
        /\ bound

\* Whether the packet reaches the call of rasterizer->DrawIndex().
CallsDrawIndex(buf, h, stray, bound) ==
    HeaderOpcode(BufWord(buf, h, stray)) = OpDrawIndex2 /\ bound

\* A span that leaves out the header word.
PacketSpanWordsNoHeader(hdr) == NumWords(hdr)

\* next_header - header, in words and in bytes.
PacketSpanWords(hdr) == NumWords(hdr) + 1

PacketSpanBytes(hdr) == 4 * PacketSpanWords(hdr)

(***************************************************************************)
(* The command buffers the submitters hand in.                             *)
(***************************************************************************)
\* A type-3 header with the given opcode and count field.
Hdr(op, count) == W(3 * 16384 + count, op * 256)

D1 == W(0, 17)

D2 == W(1, 2)

D3 == W(43690, 21845)

\* The one address the write-data and wait-reg-mem packets use.
LabelAddr == <<W(0, 1), W(2, 4096)>>

\* Three register writes inside their ranges.
BufRegs ==
    <<Hdr(OpSetContextReg, 2), W(0, 1), D1, D2,
      Hdr(OpSetShReg, 1), W(0, 0), D3,
      Hdr(OpSetUconfigReg, 1), W(0, 2), D1>>

\* A second write of context register 2.
BufRegs2 == <<Hdr(OpSetContextReg, 1), W(0, 2), D3>>

\* Index type, the two draws, a flip marker, a plain no-op, a fence.
BufDraw ==
    <<Hdr(OpIndexType, 0), W(0, 1),
      Hdr(OpDrawIndex2, 4), W(0, 300), W(4, 8), W(0, 1), W(0, 36), W(0, 2),
      Hdr(OpDrawIndexAuto, 1), W(0, 3), W(0, 2),
      Hdr(OpNop, 1), PatchedFlip, Zero,
      Hdr(OpNop, 0), Zero,
      Hdr(OpNop, 1), D1, Zero,
      Hdr(OpEventWriteEos, 0), Zero>>

\* The opcodes without an effect and a fence.
BufSync ==
    <<Hdr(OpDispatchDirect, 0), Zero,
      Hdr(OpDmaData, 0), Zero,
      Hdr(OpAcquireMem, 0), Zero,
      Hdr(OpEventWriteEop, 0), Zero>>

\* A memory write of D1 to the label, then a wait for the label to hold D2.
BufWait ==
    <<Hdr(OpWriteData, 3), W(0, 5 * 256), LabelAddr[2], LabelAddr[1], D1,
      Hdr(OpWaitRegMem, 5), W(0, 3), LabelAddr[2], LabelAddr[1], D2,
          W(65535, 65535), Zero>>

\* A shader-register write at the offset where the context range begins.
BufCross == <<Hdr(OpSetShReg, 1), W(0, 29696), D3>>

\* A user-config write whose second word lies past the register array.
BufOob == <<Hdr(OpSetUconfigReg, 2), W(0, 4095), D1, D2>>

\* A no-op whose span of three words passes the end of its buffer.
BufOver == <<Hdr(OpNop, 1), PatchedFlip>>

\* A no-op with a count field of 0, its one payload word the flip marker.
BufFlipShort == <<Hdr(OpNop, 0), PatchedFlip>>

\* A write-data packet with destination selector 1.
BufWriteSel ==
    <<Hdr(OpWriteData, 3), W(0, 1 * 256), LabelAddr[2], LabelAddr[1], D1>>

\* A write-data packet that asks for the single-address mode.
BufWriteOne ==
    <<Hdr(OpWriteData, 3), W(1, 5 * 256), LabelAddr[2], LabelAddr[1], D1>>

\* A write-data packet with a count field of 1: a payload of two words,
\* too short for the control word and the two address words.
BufWriteShort == <<Hdr(OpWriteData, 1), W(0, 5 * 256), LabelAddr[2]>>

\* A register write whose second data word lies past the end of its buffer.
BufOverRead == <<Hdr(OpSetContextReg, 2), W(0, 3), D1>>

\* A type-0 word, then a register write.
BufBadType == <<Zero, Hdr(OpSetContextReg, 1), W(0, 5), D2>>

\* A type-3 packet of an opcode without a case, then a register write.
BufBadOp == <<Hdr(255, 0), Zero, Hdr(OpSetContextReg, 1), W(0, 5), D2>>

BufEmpty == <<>>

\* The buffers handed to Submit.
Buffers == {BufRegs, BufRegs2, BufWait, BufBadOp, BufEmpty}

\* Those of them whose packets tile the buffer and are all supported.
WellFormedBuffers == {BufRegs, BufRegs2, BufWait}

\* The buffers handed to ProcessCmdList alone.
DecoderBuffers ==
    {BufRegs, BufRegs2, BufDraw, BufSync, BufWait, BufCross, BufOob, BufOver,
     BufFlipShort, BufWriteSel, BufWriteOne, BufWriteShort, BufOverRead,
     BufBadType, BufBadOp}

\* Whether a buffer holds a wait-reg-mem header.
ReadsMemory(buf) ==
    \E i \in 1 .. Len(buf) :
        HeaderType(buf[i]) = 3 /\ HeaderOpcode(buf[i]) = OpWaitRegMem

\* What a read outside a buffer may find.
StrayWords == {Zero, D3}

\* What another agent may store at the label.
ExternalWords == {D1, D2}

\* The threads that call Submit, and those among them that call WaitGpuIdle.
Clients == {"t1", "t2"}

Waiters == {"t2"}

(***************************************************************************)
(* State.                                                                  *)
(***************************************************************************)
VARIABLES
    gfx_ring,            \* the queue of submitted buffers
    m_ring_access,       \* the holder of the queue's mutex, or "free"
    stop_requested,      \* the stop state of process_thread
    process_thread,      \* where Liverpool::Process stands
    stop_observed,       \* what Process last read from its stop token
    dcb,                 \* the buffer Process has taken
    header,              \* ProcessCmdList: the cursor, in words
    processed_cmd_size,  \* ProcessCmdList: bytes consumed
    regs,                \* the register file
    rasterizer,          \* whether a rasterizer is bound
    memory,              \* the memory packets address
    flips,               \* calls of IrqC::Signal(GfxFlip)
    draws,               \* calls of rasterizer->DrawIndex()
    fences,              \* calls of SignalFence()
    fatal,               \* an ASSERT or UNREACHABLE ended the process
    corrupt,             \* a memcpy wrote outside its destination
    client,              \* where each calling thread stands
    destructor,          \* where ~Liverpool stands
    submitted,           \* the buffers in the order Submit appended them
    started,             \* the buffers in the order ProcessCmdList began
    finished,            \* the buffers in the order ProcessCmdList returned
    idle_from            \* per WaitGpuIdle call, Len(submitted) at the call

vars ==
    <<gfx_ring, m_ring_access, stop_requested, process_thread, stop_observed,
      dcb, header, processed_cmd_size, regs, rasterizer, memory, flips, draws, fences,
      fatal, corrupt, client, destructor, submitted, started, finished,
      idle_from>>

queue_vars == <<gfx_ring, m_ring_access, submitted>>

decoder_vars ==
    <<stop_observed, dcb, header, processed_cmd_size, regs, memory, flips, draws, fences,
      corrupt, started, finished>>

effect_vars == <<regs, memory, flips, draws, fences>>

client_vars == <<client, idle_from>>

EmptyArray == [i \in {} |-> InitWord]

InitRegs ==
    [reg_array |-> EmptyArray,
     index_buffer_type |-> InitWord,
     max_index_size |-> InitWord,
     index_base_lo |-> InitWord,
     index_base_hi |-> InitWord,
     num_indices |-> InitWord,
     draw_initiator |-> InitWord]

\* Liverpool::Liverpool(): the thread is started, the queue is empty and no
\* rasterizer is bound yet.
Init ==
    /\ gfx_ring = <<>>
    /\ m_ring_access = "free"
    /\ stop_requested = FALSE
    /\ process_thread = "loop"
    /\ stop_observed = FALSE
    /\ dcb = <<>>
    /\ header = 0
    /\ processed_cmd_size = 0
    /\ regs = InitRegs
    /\ rasterizer = FALSE
    /\ memory = EmptyArray
    /\ flips = 0
    /\ draws = 0
    /\ fences = 0
    /\ fatal = FALSE
    /\ corrupt = FALSE
    /\ client = [t \in Clients |-> "idle"]
    /\ destructor = "alive"
    /\ submitted = <<>>
    /\ started = <<>>
    /\ finished = <<>>
    /\ idle_from = [t \in Clients |-> 0]

\* The process runs and the object is not yet destroyed.
Running == ~fatal /\ destructor # "done"

(***************************************************************************)
(* The condition variables.  A thread blocked on cv_submit is the          *)
(* processing thread in "blocked"; a thread blocked on cv_complete is a    *)
(* client in "wait_blocked".  A notified thread must take the mutex again  *)
(* before its wait re-evaluates the predicate.                             *)
(***************************************************************************)
\* cv_submit.notify_one(), or the wake-up a stop request gives the wait.
NotifySubmit(p) == IF p = "blocked" THEN "woken" ELSE p

\* cv_complete.notify_all()
NotifyComplete(c) ==
    [t \in Clients |-> IF c[t] = "wait_blocked" THEN "wait_woken" ELSE c[t]]

\* A queue that hands out its newest element.
RingFrontNewest(q) == q[Len(q)]

\* std::queue front() and pop()
RingFront(q) == Head(q)

RingPop(q) == Tail(q)

(***************************************************************************)
(* Liverpool::Submit: append under the mutex, then notify cv_submit.       *)
(***************************************************************************)
SubmitPush(t, b) ==
    /\ Running
    /\ client[t] = "idle"
    /\ Len(submitted) < MaxSubmits
    /\ m_ring_access = "free"
    /\ gfx_ring' = Append(gfx_ring, b)
    /\ submitted' = Append(submitted, b)
    /\ client' = [client EXCEPT ![t] = "submit_notify"]
    /\ UNCHANGED <<m_ring_access, stop_requested, process_thread, fatal,
                   destructor, rasterizer, idle_from>>
    /\ UNCHANGED decoder_vars

SubmitNotify(t) ==
    /\ Running
    /\ client[t] = "submit_notify"
    /\ process_thread' = NotifySubmit(process_thread)
    /\ client' = [client EXCEPT ![t] = "idle"]
    /\ UNCHANGED <<stop_requested, fatal, destructor, rasterizer, idle_from>>
    /\ UNCHANGED queue_vars
    /\ UNCHANGED decoder_vars

(***************************************************************************)
(* Liverpool::WaitGpuIdle                                                  *)
(***************************************************************************)
\* A wait on cv_complete that returns whatever the queue holds.
IdlePredicateAny(q) == TRUE

\* The predicate of the wait on cv_complete.
IdlePredicate(q) == q = <<>>

\* The wait, entered with the mutex held: return, or block and release.
WaitGpuIdleWait(t) ==
    /\ m_ring_access = "free"
    /\ client' = [client EXCEPT ![t] =
            IF IdlePredicate(gfx_ring) THEN "wait_done" ELSE "wait_blocked"]

WaitGpuIdleCall(t) ==
    /\ Running
    /\ client[t] = "idle"
    /\ WaitGpuIdleWait(t)
    /\ idle_from' = [idle_from EXCEPT ![t] = Len(submitted)]
    /\ UNCHANGED <<stop_requested, process_thread, fatal, destructor,
                   rasterizer>>
    /\ UNCHANGED queue_vars
    /\ UNCHANGED decoder_vars

WaitGpuIdleWoken(t) ==
    /\ Running
    /\ client[t] = "wait_woken"
    /\ WaitGpuIdleWait(t)
    /\ UNCHANGED <<stop_requested, process_thread, fatal, destructor,
                   rasterizer, idle_from>>
    /\ UNCHANGED queue_vars
    /\ UNCHANGED decoder_vars

\* The caller goes on after WaitGpuIdle returned.
WaitGpuIdleReturn(t) ==
    /\ Running
    /\ client[t] = "wait_done"
    /\ client' = [client EXCEPT ![t] = "idle"]
    /\ idle_from' = [idle_from EXCEPT ![t] = 0]
    /\ UNCHANGED <<stop_requested, process_thread, fatal, destructor,
                   rasterizer>>
    /\ UNCHANGED queue_vars
    /\ UNCHANGED decoder_vars

(***************************************************************************)
(* Liverpool::~Liverpool                                                   *)
(***************************************************************************)
\* process_thread.request_stop(): the stop state is set and the
\* interruptible wait on cv_submit is woken.
RequestStop ==
    /\ Running
    /\ destructor = "alive"
    /\ stop_requested' = TRUE
    /\ process_thread' = NotifySubmit(process_thread)
    /\ destructor' = "notify"
    /\ UNCHANGED <<fatal, rasterizer>>
    /\ UNCHANGED queue_vars
    /\ UNCHANGED decoder_vars
    /\ UNCHANGED client_vars

\* cv_submit.notify_one()
DestructorNotify ==
    /\ Running
    /\ destructor = "notify"
    /\ process_thread' = NotifySubmit(process_thread)
    /\ destructor' = "join"
    /\ UNCHANGED <<stop_requested, fatal, rasterizer>>
    /\ UNCHANGED queue_vars
    /\ UNCHANGED decoder_vars
    /\ UNCHANGED client_vars

\* The members are destroyed: the jthread joins the stopped thread.
DestructorJoin ==
    /\ Running
    /\ destructor = "join"
    /\ process_thread = "stopped"
    /\ destructor' = "done"
    /\ UNCHANGED <<stop_requested, process_thread, fatal, rasterizer>>
    /\ UNCHANGED queue_vars
    /\ UNCHANGED decoder_vars
    /\ UNCHANGED client_vars

(***************************************************************************)
(* Liverpool::Process                                                      *)
(***************************************************************************)
\* The negated predicate.
SubmitPredicateInverted(q) == q = <<>>

\* The predicate of the wait on cv_submit.
SubmitPredicate(q) == q # <<>>

\* A wait that takes no stop token.
SubmitWaitIgnoresStop(stop, q) == q # <<>>

\* When the interruptible wait on cv_submit returns instead of blocking.
SubmitWaitReturns(stop, q) == stop \/ SubmitPredicate(q)

\* A loop that never looks at its stop token.
BreakNever(stop) == FALSE

\* The test that leaves the loop: stoken.stop_requested().
BreakOnStop(stop) == stop

\* The test of the decode loop.
LoopContinues(done, size) == done < size

\* The test of the drain notification negated.
DrainNotifiesNonEmpty(q) == q # <<>>

\* The test that guards cv_complete.notify_all().
DrainNotifies(q) == q = <<>>

\* while (!stoken.stop_requested())
ProcLoop ==
    /\ Running
    /\ process_thread = "loop"
    /\ stop_observed' = stop_requested
    /\ process_thread' = IF BreakOnStop(stop_requested) THEN "stopped" ELSE "lock"
    /\ UNCHANGED <<stop_requested, fatal, destructor, rasterizer, dcb, header,
                   processed_cmd_size, corrupt, started, finished>>
    /\ UNCHANGED effect_vars
    /\ UNCHANGED queue_vars
    /\ UNCHANGED client_vars

\* std::unique_lock lock{m_ring_access}
ProcLock ==
    /\ Running
    /\ process_thread = "lock"
    /\ m_ring_access = "free"
    /\ m_ring_access' = "proc"
    /\ process_thread' = "wait"
    /\ UNCHANGED <<gfx_ring, submitted, stop_requested, fatal, destructor,
                   rasterizer>>
    /\ UNCHANGED decoder_vars
    /\ UNCHANGED client_vars

\* cv_submit.wait(lock, stoken, pred): return with the mutex held, or
\* release it and block.
ProcWait ==
    /\ Running
    /\ process_thread = "wait"
    /\ IF SubmitWaitReturns(stop_requested, gfx_ring)
       THEN process_thread' = "check" /\ UNCHANGED m_ring_access
       ELSE process_thread' = "blocked" /\ m_ring_access' = "free"
    /\ UNCHANGED <<gfx_ring, submitted, stop_requested, fatal, destructor,
                   rasterizer>>
    /\ UNCHANGED decoder_vars
    /\ UNCHANGED client_vars

\* The notified wait takes the mutex again and re-evaluates.
ProcWoken ==
    /\ Running
    /\ process_thread = "woken"
    /\ m_ring_access = "free"
    /\ m_ring_access' = "proc"
    /\ process_thread' = "wait"
    /\ UNCHANGED <<gfx_ring, submitted, stop_requested, fatal, destructor,
                   rasterizer>>
    /\ UNCHANGED decoder_vars
    /\ UNCHANGED client_vars

\* if (stoken.stop_requested()) break;
ProcCheck ==
    /\ Running
    /\ process_thread = "check"
    /\ stop_observed' = stop_requested
    /\ IF BreakOnStop(stop_requested)
       THEN process_thread' = "stopped" /\ m_ring_access' = "free"
       ELSE process_thread' = "pop" /\ UNCHANGED m_ring_access
    /\ UNCHANGED <<gfx_ring, submitted, stop_requested, fatal, destructor,
                   rasterizer, dcb, header, processed_cmd_size, corrupt,
                   started, finished>>
    /\ UNCHANGED effect_vars
    /\ UNCHANGED client_vars

\* dcb = gfx_ring.front(); gfx_ring.pop(); and the mutex is released.
\* front() of an empty queue is undefined: a crash, or an arbitrary span.
ProcPop ==
    /\ Running
    /\ process_thread = "pop"
    /\ m_ring_access' = "free"
    /\ IF gfx_ring = <<>>
       THEN /\ \E crash \in BOOLEAN :
                 /\ fatal' = crash
                 /\ process_thread' = IF crash THEN "pop" ELSE "assert"
            /\ corrupt' = TRUE
            /\ dcb' = <<>>
            /\ UNCHANGED gfx_ring
       ELSE /\ dcb' = RingFront(gfx_ring)
            /\ gfx_ring' = RingPop(gfx_ring)
            /\ process_thread' = "assert"
            /\ UNCHANGED <<fatal, corrupt>>
    /\ UNCHANGED <<submitted, stop_requested, stop_observed, destructor,
                   rasterizer, header, processed_cmd_size, started, finished>>
    /\ UNCHANGED effect_vars
    /\ UNCHANGED client_vars

\* ASSERT_MSG(!dcb.empty()), then the call of ProcessCmdList.
ProcBegin ==
    /\ Running
    /\ process_thread = "assert"
    /\ IF dcb = <<>>
       THEN /\ fatal' = TRUE
            /\ UNCHANGED <<process_thread, header, processed_cmd_size, started>>
       ELSE /\ process_thread' = "decode"
            /\ header' = 0
            /\ processed_cmd_size' = 0
            /\ started' = Append(started, dcb)
            /\ UNCHANGED fatal
    /\ UNCHANGED <<stop_requested, stop_observed, destructor, rasterizer, dcb,
                   corrupt, finished>>
    /\ UNCHANGED effect_vars
    /\ UNCHANGED queue_vars
    /\ UNCHANGED client_vars

\* header = next_header, processed_cmd_size += next_header - header
Advance ==
    LET hdr == BufWord(dcb, header, Zero)
    IN  /\ header' = header + PacketSpanWords(hdr)
        /\ processed_cmd_size' = processed_cmd_size + PacketSpanBytes(hdr)

\* One turn of the loop of ProcessCmdList, or its return.
ProcessCmdListStep ==
    /\ Running
    /\ process_thread = "decode"
    /\ IF LoopContinues(processed_cmd_size, SizeBytes(dcb))
       THEN /\ \E stray \in StrayWords, crash \in BOOLEAN :
              LET out == PacketOutcome(dcb, header, stray)
              IN  IF out = "fatal" \/ (out = "oob" /\ crash)
                  THEN /\ fatal' = TRUE
                       /\ UNCHANGED <<process_thread, header,
                                      processed_cmd_size, corrupt>>
                       /\ UNCHANGED effect_vars
                  ELSE IF out = "poll"
                  THEN /\ process_thread' = "poll"
                       /\ UNCHANGED <<fatal, header, processed_cmd_size,
                                      corrupt>>
                       /\ UNCHANGED effect_vars
                  ELSE /\ regs' = RegsAfterPacket(regs, dcb, header, stray)
                       /\ memory' = MemoryAfterPacket(memory, dcb, header, stray)
                       /\ flips' = flips
                              + (IF NopSignalsFlip(dcb, header, stray) THEN 1 ELSE 0)
                       /\ fences' = fences
                              + (IF SignalsFence(dcb, header, stray) THEN 1 ELSE 0)
                       /\ draws' = draws
                              + (IF CallsDrawIndex(dcb, header, stray, rasterizer)
                                 THEN 1 ELSE 0)
                       /\ corrupt' = (corrupt \/ out = "oob")
                       /\ Advance
                       /\ UNCHANGED <<fatal, process_thread>>
            /\ UNCHANGED finished
       ELSE /\ process_thread' = "drain"
            /\ finished' = Append(finished, dcb)
            /\ UNCHANGED <<fatal, header, processed_cmd_size, corrupt>>
            /\ UNCHANGED effect_vars
    /\ UNCHANGED <<stop_requested, stop_observed, destructor, rasterizer, dcb,
                   started>>
    /\ UNCHANGED queue_vars
    /\ UNCHANGED client_vars

\* A poll loop that also leaves when a stop is requested.
PollLeavesOnStop(test, stop) == test = "true" \/ stop

\* A poll loop with its test negated.
PollLeavesInverted(test, stop) == test # "true"

\* When the loop while (!wait_reg_mem->Test()) is left; the stop token is
\* not among what it reads.
PollLeaves(test, stop) == test = "true"

\* while (!wait_reg_mem->Test()): one evaluation of the test.
ProcPoll ==
    /\ Running
    /\ process_thread = "poll"
    /\ \E stray \in StrayWords :
         LET t == WaitRegMemTest(memory, dcb, header, stray)
         IN  IF t = "fatal"
             THEN /\ fatal' = TRUE
                  /\ UNCHANGED <<process_thread, header, processed_cmd_size>>
             ELSE IF PollLeaves(t, stop_requested)
             THEN /\ process_thread' = "decode"
                  /\ Advance
                  /\ UNCHANGED fatal
             ELSE /\ process_thread' = "sleep"
                  /\ UNCHANGED <<fatal, header, processed_cmd_size>>
    /\ UNCHANGED <<stop_requested, stop_observed, destructor, rasterizer, dcb,
                   corrupt, started, finished>>
    /\ UNCHANGED effect_vars
    /\ UNCHANGED queue_vars
    /\ UNCHANGED client_vars

\* std::this_thread::sleep_for(1ms), then the test again.
ProcSleep ==
    /\ Running
    /\ process_thread = "sleep"
    /\ process_thread' = "poll"
    /\ UNCHANGED <<stop_requested, fatal, destructor, rasterizer>>
    /\ UNCHANGED decoder_vars
    /\ UNCHANGED queue_vars
    /\ UNCHANGED client_vars

\* The second critical section: notify cv_complete if the queue is empty.
ProcDrain ==
    /\ Running
    /\ process_thread = "drain"
    /\ m_ring_access = "free"
    /\ client' = IF DrainNotifies(gfx_ring) THEN NotifyComplete(client) ELSE client
    /\ process_thread' = "loop"
    /\ UNCHANGED <<stop_requested, fatal, destructor, rasterizer, idle_from>>
    /\ UNCHANGED decoder_vars
    /\ UNCHANGED queue_vars

\* Another agent stores a word at the label while a buffer that reads it is
\* being decoded.
ExternalWrite(w) ==
    /\ Running
    /\ process_thread \in {"decode", "poll", "sleep"}
    /\ ReadsMemory(dcb)
    /\ MemRead(memory, LabelAddr) # w
    /\ memory' = [a \in DOMAIN memory \cup {LabelAddr} |->
                      IF a = LabelAddr THEN w ELSE memory[a]]
    /\ UNCHANGED <<stop_requested, process_thread, stop_observed, fatal,
                   destructor, rasterizer, dcb, header, processed_cmd_size,
                   regs, flips, draws, fences, corrupt, started, finished>>
    /\ UNCHANGED queue_vars
    /\ UNCHANGED client_vars

ProcessStep ==
    \/ ProcLoop
    \/ ProcLock
    \/ ProcWait
    \/ ProcWoken
    \/ ProcCheck
    \/ ProcPop
    \/ ProcBegin
    \/ ProcessCmdListStep
    \/ ProcPoll
    \/ ProcSleep
    \/ ProcDrain

Next ==
    \/ \E t \in Clients, b \in Buffers : SubmitPush(t, b)
    \/ \E t \in Clients : SubmitNotify(t)
    \/ \E t \in Waiters : WaitGpuIdleCall(t)
    \/ \E t \in Waiters : WaitGpuIdleWoken(t)
    \/ \E t \in Waiters : WaitGpuIdleReturn(t)
    \/ RequestStop
    \/ DestructorNotify
    \/ DestructorJoin
    \/ ProcessStep
    \/ \E w \in ExternalWords : ExternalWrite(w)

Spec == Init /\ [][Next]_vars

\* Every thread that can take a step of its own is scheduled; what the
\* callers and other agents choose to do (Submit, WaitGpuIdle, the
\* destruction, a store to memory) is under no obligation.
Fairness ==
    /\ WF_vars(ProcessStep)
    /\ \A t \in Clients : WF_vars(SubmitNotify(t))
    /\ \A t \in Waiters : WF_vars(WaitGpuIdleWoken(t))
    /\ \A t \in Waiters : WF_vars(WaitGpuIdleReturn(t))
    /\ WF_vars(DestructorNotify)
    /\ WF_vars(DestructorJoin)

FairSpec == Spec /\ Fairness

(***************************************************************************)
(* ProcessCmdList alone: the processing thread has taken one buffer and    *)
(* decodes it while every other thread is idle.                            *)
(***************************************************************************)
\* The register file after BufRegs was decoded.
RegsAfterBufRegs ==
    [InitRegs EXCEPT !.reg_array =
        (ShRegWordOffset :> D3) @@ (ContextRegWordOffset + 1 :> D1)
          @@ (ContextRegWordOffset + 2 :> D2) @@ (UconfigRegWordOffset + 2 :> D1)]

DecoderInit ==
    /\ dcb \in DecoderBuffers
    /\ gfx_ring = <<>>
    /\ m_ring_access = "free"
    /\ stop_requested = FALSE
    /\ process_thread = "decode"
    /\ stop_observed = FALSE
    /\ header = 0
    /\ processed_cmd_size = 0
    /\ regs \in {InitRegs, RegsAfterBufRegs}
    /\ rasterizer \in BOOLEAN
    /\ memory = EmptyArray
    /\ flips = 0
    /\ draws = 0
    /\ fences = 0
    /\ fatal = FALSE
    /\ corrupt = FALSE
    /\ client = [t \in Clients |-> "idle"]
    /\ destructor = "alive"
    /\ submitted = <<dcb>>
    /\ started = <<dcb>>
    /\ finished = <<>>
    /\ idle_from = [t \in Clients |-> 0]

DecoderNext ==
    \/ ProcessCmdListStep
    \/ ProcPoll
    \/ ProcSleep
    \/ \E w \in ExternalWords : ExternalWrite(w)

DecoderSpec == DecoderInit /\ [][DecoderNext]_vars

(***************************************************************************)
(* ProcessCmdList run to its end on one buffer, as a function: the         *)
(* register array after the packets from word h on, with no word read      *)
(* outside the buffer.                                                     *)
(***************************************************************************)
RECURSIVE DecodeFrom(_, _, _)
DecodeFrom(arr, buf, h) ==
    IF ~LoopContinues(4 * h, SizeBytes(buf)) THEN arr
    ELSE IF PacketOutcome(buf, h, Zero) = "fatal" THEN arr
    ELSE DecodeFrom(RegsAfterPacket([InitRegs EXCEPT !.reg_array = arr],
                                    buf, h, Zero).reg_array,
                    buf, h + PacketSpanWords(BufWord(buf, h, Zero)))

RECURSIVE DecodeAll(_, _)
\* The register array after the buffers of bufs, decoded in order.
DecodeAll(arr, bufs) ==
    IF bufs = <<>> THEN arr
    ELSE DecodeAll(DecodeFrom(arr, Head(bufs), 0), Tail(bufs))

\* Two register arrays hold the same words.
SameArray(a, b) ==
    \A i \in DOMAIN a \cup DOMAIN b : RegRead(a, i) = RegRead(b, i)

(***************************************************************************)
(* C1.  WaitGpuIdle never returns while a buffer submitted before the call *)
(* is still queued or still being decoded; so when it returns and no       *)
(* further buffer was submitted, the register array holds the effect of    *)
(* the register writes of all submitted buffers, applied in order.  Stated *)
(* for well-formed buffers.                                                *)
(***************************************************************************)
C1_WaitIdleReturnsAfterProcessing ==
    \A t \in Waiters :
        (client[t] = "wait_done"
            /\ \A i \in 1 .. Len(submitted) : submitted[i] \in WellFormedBuffers) =>
            /\ Len(finished) >= idle_from[t]
            /\ Len(submitted) = idle_from[t] =>
                   SameArray(regs.reg_array, DecodeAll(EmptyArray, submitted))

(***************************************************************************)
(* C2.  The processing thread takes the buffers in the order Submit        *)
(* appended them, each once, and decodes one at a time: the buffers begun, *)
(* the one just taken and the queue make up the submission order, and at   *)
(* most one buffer is begun and not finished.                              *)
(***************************************************************************)
C2_FifoOrder ==
    LET taken == IF process_thread = "assert" THEN <<dcb>> ELSE <<>>
    IN  /\ started \o taken \o gfx_ring = submitted
        /\ Len(finished) <= Len(started)
        /\ Len(started) <= Len(finished) + 1
        /\ finished = SubSeq(started, 1, Len(finished))
        /\ Len(started) > Len(finished) =>
               /\ process_thread \in {"decode", "poll", "sleep"}
               /\ dcb = started[Len(started)]

C2_Witness ==
    /\ Len(finished) = 2
    /\ finished[1] # finished[2]
    /\ finished = submitted

(***************************************************************************)
(* C3.  No submitted buffer is dropped: in a behaviour where no stop is    *)
(* requested, no decode is fatal and no wait-reg-mem poll lasts forever,   *)
(* the n-th submitted buffer is eventually fully decoded, whichever        *)
(* threads submitted and however their Submit calls interleave.            *)
(***************************************************************************)
C3_NoBufferDropped ==
    ([]~stop_requested /\ []~fatal
        /\ []<>(process_thread \notin {"poll", "sleep"})) =>
        \A n \in 1 .. MaxSubmits :
            [](Len(submitted) >= n => <>(Len(finished) >= n))

\* Both submitters were between their append and their notify at once, and
\* both buffers were decoded.
C3_Witness ==
    /\ \A t \in Clients : client[t] = "submit_notify"
    /\ Len(finished) = 2
    /\ gfx_ring = <<>>
    /\ ~stop_requested
    /\ ~fatal

(***************************************************************************)
(* C4.  A stop request made while the processing thread is blocked in the  *)
(* wait for work wakes it, and a processing thread that is blocked or      *)
(* woken with a stop requested and the queue empty reaches "stopped", with *)
(* no Submit needed.                                                       *)
(***************************************************************************)
C4_ShutdownStopsIdleThread ==
    /\ [][(~stop_requested /\ stop_requested' /\ process_thread = "blocked")
              => process_thread' = "woken"]_vars
    /\ (stop_requested /\ gfx_ring = <<>>
            /\ process_thread \in {"blocked", "woken"})
          ~> (process_thread = "stopped")

\* The thread stopped although nothing was ever submitted.
C4_Witness ==
    /\ process_thread = "stopped"
    /\ stop_requested
    /\ submitted = <<>>
    /\ m_ring_access = "free"

(***************************************************************************)
(* C5, as claimed.  Every pop of the queue happens at a moment when no     *)
(* stop has been requested.                                                *)
(***************************************************************************)
C5_PopOnlyBeforeStopRequest ==
    [][Len(gfx_ring') < Len(gfx_ring) => ~stop_requested]_vars

(***************************************************************************)
(* C5, amended.  The loop never dequeues after it has observed a stop      *)
(* request: every pop follows, under the same hold of the mutex, a test of *)
(* the stop token that read "not requested".                               *)
(***************************************************************************)
C5_PopOnlyAfterCheckSawNoStop ==
    [][Len(gfx_ring') < Len(gfx_ring) =>
          (~stop_observed /\ process_thread = "pop" /\ m_ring_access = "proc")]_vars

\* The loop observed the stop with a buffer queued and left it there.
C5_Witness ==
    /\ process_thread = "stopped"
    /\ stop_observed
    /\ gfx_ring # <<>>
    /\ Len(started) = 1

(***************************************************************************)
(* C6.  ProcessCmdList returns only with the consumed bytes equal to the   *)
(* length of the buffer: a buffer whose last packet passes its end is not  *)
(* accepted.                                                               *)
(***************************************************************************)
C6_ExactConsumption ==
    process_thread = "drain" => processed_cmd_size = SizeBytes(dcb)

(***************************************************************************)
(* C7.  A packet whose type is not 3, or a type-3 packet whose opcode has  *)
(* no case, is fatal: once the cursor stands on it the decoder takes no    *)
(* step but the fatal one, which is taken, and from then on the register   *)
(* file, the memory and the collaborators never change.                    *)
(***************************************************************************)
BadPacketAtCursor ==
    /\ process_thread = "decode"
    /\ processed_cmd_size < SizeBytes(dcb)
    /\ LET hdr == BufWord(dcb, header, Zero)
       IN  HeaderType(hdr) # 3 \/ HeaderOpcode(hdr) \notin KnownOpcodes

SetRegAtCursor ==
    /\ process_thread = "decode"
    /\ ~fatal
    /\ processed_cmd_size < SizeBytes(dcb)
    /\ HeaderType(BufWord(dcb, header, Zero)) = 3
    /\ HeaderOpcode(BufWord(dcb, header, Zero))
          \in {OpSetContextReg, OpSetShReg, OpSetUconfigReg}

CursorRange ==
    LET op == HeaderOpcode(BufWord(dcb, header, Zero))
    IN  IF op = OpSetContextReg THEN "context"
        ELSE IF op = OpSetShReg THEN "sh" ELSE "uconfig"

\* The number of data words: the payload less the offset word.
CursorDataLen == HeaderCount(BufWord(dcb, header, Zero))

CursorOffset == Lo(BufWord(dcb, header + 1, Zero))

CursorTarget(i) == RangeBase(CursorRange) + CursorOffset + i

\* The packet lies in its buffer and its target in the register array.
CursorWriteDefined ==
    /\ header + 1 + CursorDataLen < Len(dcb)
    /\ CursorTarget(CursorDataLen) <= NumRegs

FixedFields(r) ==
    <<r.index_buffer_type, r.max_index_size, r.index_base_lo,
      r.index_base_hi, r.num_indices, r.draw_initiator>>

(***************************************************************************)
(* C8.  The decode of a set-register packet with offset o and data words   *)
(* w0..wk, lying in its buffer and aimed inside the register array, leaves *)
(* reg_array[base + o + i] = wi for every i and changes no other word of   *)
(* the register file.                                                      *)
(***************************************************************************)
C8_SetRegWritesItsWords ==
    [][(SetRegAtCursor /\ CursorWriteDefined /\ header' # header) =>
          /\ \A i \in 0 .. CursorDataLen - 1 :
                 RegRead(regs'.reg_array, CursorTarget(i))
                     = dcb[header + 2 + i + 1]
          /\ \A j \in DOMAIN regs.reg_array \cup DOMAIN regs'.reg_array :
                 j \notin {CursorTarget(i) : i \in 0 .. CursorDataLen - 1} =>
                     RegRead(regs'.reg_array, j) = RegRead(regs.reg_array, j)
          /\ FixedFields(regs') = FixedFields(regs)]_vars

\* BufRegs after its first packet: context registers 1 and 2 hold D1 and D2
\* and the shader range is untouched.
C8_Witness ==
    /\ dcb = BufRegs
    /\ header = 4
    /\ RegRead(regs.reg_array, ContextRegWordOffset + 1) = D1
    /\ RegRead(regs.reg_array, ContextRegWordOffset + 2) = D2
    /\ RegRead(regs.reg_array, ShRegWordOffset) = InitWord

(***************************************************************************)
(* C9.  The decode of a set-register packet changes no word of a range     *)
(* other than the one its opcode addresses, and no fixed-function field.   *)
(***************************************************************************)
C9_NoCrossRangeWrite ==
    [][SetRegAtCursor =>
          /\ \A j \in DOMAIN regs.reg_array \cup DOMAIN regs'.reg_array :
                 RangeOf(j) # CursorRange =>
                     RegRead(regs'.reg_array, j) = RegRead(regs.reg_array, j)
          /\ FixedFields(regs') = FixedFields(regs)]_vars

(***************************************************************************)
(* C10.  A set-register packet whose offset plus word count exceeds the    *)
(* capacity of its range is fatal: the decoder does not advance past it    *)
(* and writes no word.                                                     *)
(***************************************************************************)
C10_RangeOverflowIsFatal ==
    [][(SetRegAtCursor
          /\ CursorOffset + CursorDataLen > RangeCapacity(CursorRange)) =>
          (regs' = regs /\ header' = header /\ ~corrupt')]_vars

(***************************************************************************)
(* The packet under the cursor, for the claims about one opcode: a type-3  *)
(* packet of opcode op that lies in its buffer, about to be decoded.       *)
(***************************************************************************)
PacketAtCursor(op) ==
    /\ process_thread = "decode"
    /\ ~fatal
    /\ processed_cmd_size < SizeBytes(dcb)
    /\ HeaderType(BufWord(dcb, header, Zero)) = 3
    /\ HeaderOpcode(BufWord(dcb, header, Zero)) = op
    /\ header + HeaderCount(BufWord(dcb, header, Zero)) + 1 < Len(dcb)

\* Payload word k (from 1) of the packet under the cursor.
Payload(k) == dcb[header + k + 1]

\* The collaborators' call counts.
Calls == <<flips, draws, fences>>

(***************************************************************************)
(* C11, as claimed.  The decode of a draw-index packet sets max index      *)
(* size, index base (low and high), index count and draw initiator to the  *)
(* packet's words and calls the rasterizer's indexed draw exactly once, in *)
(* the step that sets the fields and moves the cursor to the next packet.  *)
(***************************************************************************)
C11_DrawIndexCallsRasterizerOnce ==
    [][(PacketAtCursor(OpDrawIndex2) /\ header' # header) =>
          /\ regs'.max_index_size = Payload(1)
          /\ regs'.index_base_lo = Payload(2)
          /\ regs'.index_base_hi = Payload(3)
          /\ regs'.num_indices = Payload(4)
          /\ regs'.draw_initiator = Payload(5)
          /\ draws' = draws + 1]_vars

(***************************************************************************)
(* C11, amended.  The same, with the call made exactly once when a         *)
(* rasterizer is bound and not at all when none is; the packet changes no  *)
(* other part of the register file, signals no flip and no fence, and the  *)
(* decoder takes no step at the packet other than this one.                *)
(***************************************************************************)
C11_DrawIndexCallsBoundRasterizerOnce ==
    /\ [][(PacketAtCursor(OpDrawIndex2) /\ header' # header) =>
             /\ regs'.max_index_size = Payload(1)
             /\ regs'.index_base_lo = Payload(2)
             /\ regs'.index_base_hi = Payload(3)
             /\ regs'.num_indices = Payload(4)
             /\ regs'.draw_initiator = Payload(5)
             /\ regs'.reg_array = regs.reg_array
             /\ regs'.index_buffer_type = regs.index_buffer_type
             /\ draws' = draws + (IF rasterizer THEN 1 ELSE 0)
             /\ <<flips', fences', memory'>> = <<flips, fences, memory>>
             /\ header' = header + HeaderCount(BufWord(dcb, header, Zero)) + 2]_vars
    /\ [][(PacketAtCursor(OpDrawIndex2) /\ header' = header) =>
             (regs' = regs /\ draws' = draws /\ ~fatal')]_vars

\* BufDraw after its draw-index packet, a rasterizer bound: one call, and
\* the fields hold the packet's five words.
C11_Witness ==
    /\ dcb = BufDraw
    /\ header = 8
    /\ rasterizer
    /\ draws = 1
    /\ regs.max_index_size = W(0, 300)
    /\ regs.index_base_lo = W(4, 8)
    /\ regs.index_base_hi = W(0, 1)
    /\ regs.num_indices = W(0, 36)
    /\ regs.draw_initiator = W(0, 2)

(***************************************************************************)
(* The wait-reg-mem packet the processing thread stands in, for the claims *)
(* C12 and C18.                                                            *)
(***************************************************************************)
Waiting == process_thread \in {"poll", "sleep"}

\* What the packet's test finds in the memory as it is now.
PredicateTrue == WaitRegMemTest(memory, dcb, header, Zero) = "true"

PredicateFalse == WaitRegMemTest(memory, dcb, header, Zero) = "false"

(***************************************************************************)
(* C12.  A test of a wait-reg-mem packet that finds the predicate true     *)
(* moves the cursor to the next packet and is never followed by a sleep;   *)
(* no step taken while the predicate is false moves the thread past the    *)
(* packet; and a thread waiting with the predicate true goes on to the     *)
(* next packet, unless the predicate turns false again first.              *)
(***************************************************************************)
C12_WaitRegMemFollowsPredicate ==
    /\ [][(process_thread = "poll" /\ PredicateTrue
              /\ process_thread' # "poll") =>
             /\ process_thread' = "decode"
             /\ header' = header + HeaderCount(dcb[header + 1]) + 2]_vars
    /\ [][(Waiting /\ ~PredicateTrue) =>
             (Waiting' /\ header' = header /\ finished' = finished)]_vars
    /\ (Waiting /\ PredicateTrue)
          ~> (process_thread = "decode" \/ (Waiting /\ ~PredicateTrue))

\* BufWait decoded to its end: the label held D1 after the write-data
\* packet, so another agent's store of D2 let the wait pass.
C12_Witness ==
    /\ dcb = BufWait
    /\ process_thread = "decode"
    /\ header = Len(BufWait)
    /\ MemRead(memory, LabelAddr) = D2
    /\ ~fatal

(***************************************************************************)
(* C13.  The decode of a no-op packet changes no word of the register      *)
(* file, draws nothing and signals no fence; it signals the flip boundary  *)
(* exactly once if the packet's first payload word is the flip marker and  *)
(* not at all otherwise.                                                   *)
(***************************************************************************)
C13_NopSignalsFlipOnMarker ==
    [][(PacketAtCursor(OpNop) /\ header' # header) =>
          /\ regs' = regs
          /\ draws' = draws
          /\ fences' = fences
          /\ flips' = flips + (IF Payload(1) = PatchedFlip THEN 1 ELSE 0)]_vars

(***************************************************************************)
(* C14.  A stop requested while a buffer is being decoded does not         *)
(* interrupt the decode: the thread leaves the decode only by the return   *)
(* of ProcessCmdList, which has then consumed the whole buffer, and reads  *)
(* its stop token no earlier; from such a stop request on it dequeues      *)
(* nothing and begins no buffer; and, the decode being neither fatal nor   *)
(* stuck in a wait-reg-mem packet, it finishes the buffer and stops.       *)
(***************************************************************************)
Decoding == process_thread \in {"decode", "poll", "sleep"}

C14_DecodeIgnoresStop ==
    /\ [][(Decoding /\ stop_requested) =>
             /\ process_thread' \in {"decode", "poll", "sleep", "drain"}
             /\ stop_observed' = stop_observed
             /\ header' >= header]_vars
    /\ [](process_thread = "drain" => processed_cmd_size >= SizeBytes(dcb))
    /\ [][(stop_requested
              /\ process_thread \in {"decode", "poll", "sleep", "drain", "loop"}) =>
             /\ process_thread'
                   \in {"decode", "poll", "sleep", "drain", "loop", "stopped"}
             /\ gfx_ring' = gfx_ring \/ Len(gfx_ring') > Len(gfx_ring)
             /\ started' = started]_vars
    /\ ([]~fatal /\ []<>~Waiting) =>
           ((Decoding /\ stop_requested)
               ~> (process_thread = "stopped" /\ finished = started))

\* The stop was requested and the destructor waits for the thread, which
\* is two packets into BufRegs with another buffer queued.
C14_Witness ==
    /\ stop_requested
    /\ destructor = "join"
    /\ process_thread = "decode"
    /\ dcb = BufRegs
    /\ header = 7
    /\ ~stop_observed
    /\ gfx_ring # <<>>

(***************************************************************************)
(* C15.  Whatever the recognized opcode, the step that moves the cursor    *)
(* moves it by the payload's word count plus one, the header, in words of  *)
(* 4 bytes; and the decode of a dispatch-direct, dma-data or acquire-mem   *)
(* packet moves the cursor so and changes neither the register file nor    *)
(* the memory nor any collaborator's call count.                           *)
(***************************************************************************)
C15_SpanIsWordCountPlusOne ==
    /\ [][(process_thread \in {"decode", "poll"} /\ header' # header) =>
             LET hdr == dcb[header + 1]
             IN  /\ HeaderType(hdr) = 3
                 /\ HeaderOpcode(hdr) \in KnownOpcodes
                 /\ header' = header + (HeaderCount(hdr) + 1) + 1
                 /\ processed_cmd_size'
                       = processed_cmd_size + 4 * ((HeaderCount(hdr) + 1) + 1)]_vars
    /\ [][(\E op \in {OpDispatchDirect, OpDmaData, OpAcquireMem} :
               PacketAtCursor(op)) =>
             /\ regs' = regs
             /\ memory' = memory
             /\ Calls' = Calls
             /\ ~fatal'
             /\ header' \in {header,
                             header + HeaderCount(dcb[header + 1]) + 2}]_vars

\* BufSync after its dispatch-direct, dma-data and acquire-mem packets:
\* three spans of two words, and nothing written or called.
C15_Witness ==
    /\ dcb = BufSync
    /\ header = 6
    /\ processed_cmd_size = 24
    /\ regs = RegsAfterBufRegs
    /\ memory = EmptyArray
    /\ Calls = <<0, 0, 0>>

(***************************************************************************)
(* C16.  The decode of a draw-index-auto packet sets the index count and   *)
(* the draw initiator to the packet's two words and changes nothing else:  *)
(* not the index base, the max index size, the index type or a word of the *)
(* register array, and the rasterizer is not called.                       *)
(***************************************************************************)
C16_DrawIndexAutoSetsCountAndInitiator ==
    [][(PacketAtCursor(OpDrawIndexAuto) /\ header' # header) =>
          /\ regs'.num_indices = Payload(1)
          /\ regs'.draw_initiator = Payload(2)
          /\ regs'.index_base_lo = regs.index_base_lo
          /\ regs'.index_base_hi = regs.index_base_hi
          /\ regs'.max_index_size = regs.max_index_size
          /\ regs'.index_buffer_type = regs.index_buffer_type
          /\ regs'.reg_array = regs.reg_array
          /\ draws' = draws
          /\ <<flips', fences', memory'>> = <<flips, fences, memory>>]_vars

\* BufDraw after its draw-index-auto packet, a rasterizer bound: the one
\* call is the draw-index packet's, whose base and max size still stand.
C16_Witness ==
    /\ dcb = BufDraw
    /\ header = 11
    /\ rasterizer
    /\ draws = 1
    /\ regs.num_indices = W(0, 3)
    /\ regs.draw_initiator = W(0, 2)
    /\ regs.max_index_size = W(0, 300)
    /\ regs.index_base_lo = W(4, 8)
    /\ regs.index_buffer_type = W(0, 1)

(***************************************************************************)
(* C17.  A write-data packet whose destination selector is neither 2 nor 5 *)
(* or that asks for the single-address mode is fatal and writes no memory; *)
(* any other write-data packet is decoded with a copy of exactly its data  *)
(* words, the payload less the control word and the two address words, to  *)
(* the destination address, a copy that stays within the payload, and with *)
(* the register file unchanged.                                            *)
(***************************************************************************)
C17_WriteDataCopiesItsWords ==
    [][(PacketAtCursor(OpWriteData) /\ (header' # header \/ fatal')) =>
          LET P(k) == BufWord(dcb, header + k, Zero)
              n == NumWords(P(0)) - 3
              a == <<P(3), P(2)>>
              dst == {AddrPlus(a, i) : i \in 0 .. n - 1}
          IN  IF DstSel(P(1)) \notin {2, 5} \/ WrOneAddr(P(1)) # 0
              THEN fatal' /\ memory' = memory /\ header' = header
              ELSE /\ ~fatal'
                   /\ ~corrupt'
                   /\ header' = header + NumWords(P(0)) + 1
                   /\ regs' = regs
                   /\ \A i \in 0 .. n - 1 :
                          MemRead(memory', AddrPlus(a, i)) = P(4 + i)
                   /\ \A x \in (DOMAIN memory \cup DOMAIN memory') \ dst :
                          MemRead(memory', x) = MemRead(memory, x)]_vars

(***************************************************************************)
(* C18.  A wait-reg-mem packet whose predicate is never true holds the     *)
(* processing thread for good, a stop request notwithstanding: no step     *)
(* taken while the predicate is false moves the thread off the packet,     *)
(* begins or finishes a buffer or dequeues one; and if the predicate stays *)
(* false the thread stays in the wait and the destructor never completes.  *)
(***************************************************************************)
C18_NeverTrueWaitStalls ==
    /\ [][(Waiting /\ PredicateFalse) =>
             /\ Waiting'
             /\ <<dcb', header', processed_cmd_size'>>
                   = <<dcb, header, processed_cmd_size>>
             /\ <<started', finished'>> = <<started, finished>>
             /\ gfx_ring' = gfx_ring \/ Len(gfx_ring') > Len(gfx_ring)
             /\ ~stop_observed']_vars
    /\ []((Waiting /\ [](Waiting => PredicateFalse)) =>
             [](Waiting /\ destructor # "done"))

\* The thread sleeps in the wait of BufWait with the label still D1, the
\* stop requested, the destructor at its join and a buffer still queued.
C18_Witness ==
    /\ process_thread = "sleep"
    /\ dcb = BufWait
    /\ PredicateFalse
    /\ stop_requested
    /\ destructor = "join"
    /\ gfx_ring # <<>>

(***************************************************************************)
(* C19.  With no stop requested, no fatal decode and no wait-reg-mem poll  *)
(* that lasts forever, every call of WaitGpuIdle returns, however the      *)
(* calls of Submit and WaitGpuIdle and the steps of the processing thread  *)
(* interleave; and a call made while the queue is empty returns without    *)
(* blocking on cv_complete.                                                *)
(***************************************************************************)
InWaitGpuIdle(t) == client[t] \in {"wait_blocked", "wait_woken", "wait_done"}

C19_WaitIdleReturns ==
    /\ [][\A t \in Waiters :
             (client[t] = "idle" /\ InWaitGpuIdle(t)' /\ gfx_ring = <<>>) =>
                 client'[t] = "wait_done"]_vars
    /\ [][\A t \in Waiters :
             (client[t] = "wait_blocked" /\ client'[t] # "wait_blocked") =>
                 (client'[t] = "wait_woken" /\ process_thread = "drain"
                     /\ gfx_ring = <<>>)]_vars
    /\ ([]~stop_requested /\ []~fatal /\ []<>~Waiting) =>
           \A t \in Waiters : InWaitGpuIdle(t) ~> (client[t] = "idle")

\* The waiter is blocked, the last buffer queued has been decoded, and a
\* Submit has landed since its pop: this drain check finds the queue
\* non-empty and notifies nobody.
C19_Witness ==
    /\ client["t2"] = "wait_blocked"
    /\ process_thread = "drain"
    /\ Len(finished) = 1
    /\ Len(gfx_ring) = 1
    /\ ~stop_requested
    /\ ~fatal

(***************************************************************************)
(* C20.  A processing loop that observes the stop request while buffers    *)
(* are queued stops with the queue as it is: it stops only on an observed  *)
(* stop, in a step that dequeues and begins nothing; once stopped it stays *)
(* stopped, the queue never shrinks and no buffer is begun; and while it   *)
(* is stopped with the queue non-empty no caller of WaitGpuIdle, blocked   *)
(* before or calling after, gets to return.                                *)
(***************************************************************************)
StoppedWithWork == process_thread = "stopped" /\ gfx_ring # <<>>

C20_StopLeavesQueueAndWaiters ==
    /\ [][(process_thread # "stopped" /\ process_thread' = "stopped") =>
             (stop_observed' /\ gfx_ring' = gfx_ring /\ started' = started)]_vars
    /\ [][process_thread = "stopped" =>
             /\ process_thread' = "stopped"
             /\ gfx_ring' = gfx_ring \/ Len(gfx_ring') > Len(gfx_ring)
             /\ <<started', finished', regs'>> = <<started, finished, regs>>]_vars
    /\ [][StoppedWithWork =>
             \A t \in Waiters :
                 /\ client[t] # "wait_done" => client'[t] # "wait_done"
                 /\ client[t] = "wait_blocked" => client'[t] = "wait_blocked"]_vars

\* The loop stopped with a buffer queued, the destructor has joined it,
\* and the caller of WaitGpuIdle is blocked.
C20_Witness ==
    /\ StoppedWithWork
    /\ stop_observed
    /\ destructor = "done"
    /\ client["t2"] = "wait_blocked"
    /\ Len(started) < Len(submitted)

=============================================================================
